---- MODULE Spec2Model ----
(***************************************************************************)
(* Model of the grape reconciliation calculator (jug-ocr-v1.2): the        *)
(* session state held by the App component, its handlers (preset switch,   *)
(* reset, the three input widgets, the OCR request and its completion),    *)
(* the balance-equation engine calcResultByCapture and the text            *)
(* extraction parseFromText.                                               *)
(*                                                                         *)
(* Numbers.  A JavaScript number is a record [k, v]: k = "fin" with v the  *)
(* value in units of 1/Scale (fixed point, rounded to nearest after every  *)
(* multiplication and division, in the order the code performs them), or   *)
(* k = "nan", "inf", "ninf".  Signed zeros are not distinguished: every    *)
(* divisor of the code is a non-negative constant or a positive count.     *)
(*                                                                         *)
(* Text.  A string is a sequence of characters; an ASCII character is the  *)
(* one-character string, any other character has a name:                   *)
(*   FW0..FW9 full-width digits, FWG full-width G, FW- FW+ FW: full-width  *)
(*   minus, plus, colon, FWSP ideographic space, ROMAN3 / roman3 the roman *)
(*   numeral three and its lower case,                                     *)
(*   SOU KAI TEN SUU SA MAI TAMA the kanji of "total", "turn", "roll",     *)
(*   "number", "difference", "sheets", "balls",                            *)
(*   kXX the katakana with reading XX (k- is the long-vowel mark, a lower  *)
(*   case reading is the small kana).                                      *)
(***************************************************************************)
EXTENDS Integers, Sequences, FiniteSets, TLC

VARIABLES
    modelKey,   \* useState modelKey
    G,          \* useState G      (string | number)
    big,        \* useState big
    reg,        \* useState reg
    diff,       \* useState diff
    assume,     \* the nine editable constants: replay .. pieroPay
    ocrBusy,    \* useState ocrBusy
    ocrLog,     \* useState ocrLog, as the sequence of message kinds
    inflight,   \* Tesseract.recognize calls awaited by handleImageFiles
    raw,        \* argument of the last parseFromText call
    parsed,     \* its return value
    saved,      \* localStorage[STORAGE_KEY]
    memoOf,     \* the inputs the memoized resultsByStrategy was computed from
    history,    \* useState history
    savedHistory \* localStorage[HISTORY_KEY]

vars == <<modelKey, G, big, reg, diff, assume, ocrBusy, ocrLog, inflight,
          raw, parsed, saved, memoOf, history, savedHistory>>

-----------------------------------------------------------------------------
(* JavaScript numbers *)

Scale == 10 * 1000

Fin(v) == [k |-> "fin", v |-> v]
NaN    == [k |-> "nan", v |-> 0]
PosInf == [k |-> "inf", v |-> 0]
NegInf == [k |-> "ninf", v |-> 0]

\* the decimal literal i.fff (three fraction digits), in units of 1/Scale
Dec(i, fff) == i * Scale + fff * (Scale \div 1000)

isFinite(x) == x.k = "fin"

Abs(n) == IF n < 0 THEN -n ELSE n

\* -1, 0, 1; NaN has no sign (2)
Sgn(x) ==
    CASE x.k = "nan"  -> 2
      [] x.k = "inf"  -> 1
      [] x.k = "ninf" -> -1
      [] OTHER        -> IF x.v > 0 THEN 1 ELSE IF x.v < 0 THEN -1 ELSE 0

Signed(s) == IF s > 0 THEN PosInf ELSE NegInf

JNeg(x) ==
    CASE x.k = "nan"  -> NaN
      [] x.k = "inf"  -> NegInf
      [] x.k = "ninf" -> PosInf
      [] OTHER        -> Fin(-x.v)

JAdd(x, y) ==
    CASE x.k = "nan" \/ y.k = "nan"       -> NaN
      [] x.k = "fin" /\ y.k = "fin"       -> Fin(x.v + y.v)
      [] x.k = "fin"                      -> y
      [] y.k = "fin"                      -> x
      [] x.k = y.k                        -> x
      [] OTHER                            -> NaN

JSub(x, y) == JAdd(x, JNeg(y))

\* |a| * |b| / Scale rounded to nearest, without leaving the machine integers
MulMag(a, b) ==
    LET ah == a \div Scale   al == a % Scale
        bh == b \div Scale   bl == b % Scale
    IN  ah * bh * Scale + ah * bl + al * bh + ((al * bl + Scale \div 2) \div Scale)

JMul(x, y) ==
    CASE x.k = "nan" \/ y.k = "nan"  -> NaN
      [] x.k = "fin" /\ y.k = "fin"  ->
            Fin(Sgn(x) * Sgn(y) * MulMag(Abs(x.v), Abs(y.v)))
      [] Sgn(x) = 0 \/ Sgn(y) = 0    -> NaN
      [] OTHER                       -> Signed(Sgn(x) * Sgn(y))

\* the next n decimal digits of r / b (0 <= r < b), as an integer
RECURSIVE FracDigits(_, _, _)
FracDigits(r, b, n) ==
    IF n = 0 THEN IF 2 * r >= b THEN 1 ELSE 0
    ELSE LET d == (10 * r) \div b
             q == n - 1
             p == IF q = 0 THEN 1 ELSE IF q = 1 THEN 10 ELSE IF q = 2 THEN 100 ELSE 1000
         IN  d * p + FracDigits((10 * r) % b, b, n - 1)

\* |a| / |b| in units of 1/Scale rounded to nearest, by long division
DivMag(a, b) == (a \div b) * Scale + FracDigits(a % b, b, 4)

JDiv(x, y) ==
    CASE x.k = "nan" \/ y.k = "nan"  -> NaN
      [] x.k = "fin" /\ y.k = "fin"  ->
            IF y.v = 0
            THEN IF x.v = 0 THEN NaN ELSE Signed(Sgn(x))
            ELSE Fin(Sgn(x) * Sgn(y) * DivMag(Abs(x.v), Abs(y.v)))
      [] x.k = "fin"                 -> Fin(0)
      [] y.k = "fin"                 -> Signed(Sgn(x) * (IF y.v < 0 THEN -1 ELSE 1))
      [] OTHER                       -> NaN

\* x > y, x <= y as JavaScript compares: false when either side is NaN
JGt(x, y) ==
    /\ x.k # "nan" /\ y.k # "nan"
    /\ CASE x.k = "fin" /\ y.k = "fin" -> x.v > y.v
         [] x.k = "inf"                -> y.k # "inf"
         [] x.k = "ninf"               -> FALSE
         [] OTHER                      -> y.k = "ninf"

JLe(x, y) == x.k # "nan" /\ y.k # "nan" /\ ~JGt(x, y)

\* the raw value passed through, no maximum taken
MathMax0_Unclamped(x) == x

\* Math.max(0, x)
MathMax0(x) ==
    IF x.k = "nan" THEN NaN
    ELSE IF JGt(x, Fin(0)) THEN x ELSE Fin(0)

\* Math.round of a finite value given in units of 1/Scale: an integer
MathRound(v) == (v + Scale \div 2) \div Scale

-----------------------------------------------------------------------------
(* Static tables *)

\* Object.keys(PRESETS), in table order
PresetOrder ==
    <<"MyJugglerV", "SImJugglerEX", "HappyJugglerV3",
      "FunkyJuggler2", "GogoJuggler3", "MisterJuggler">>

PresetKeys == {PresetOrder[i] : i \in 1..Len(PresetOrder)}

Preset(rp, ch, be, pi, ba, ra, cp, bp, pp) ==
    [replay |-> rp, cherry |-> ch, bell |-> be, piero |-> pi,
     bigAvg |-> ba, regAvg |-> ra,
     cherryPay |-> cp * Scale, bellPay |-> bp * Scale, pieroPay |-> pp * Scale]

PRESETS ==
    [key \in PresetKeys |->
        CASE key = "MyJugglerV" ->
                Preset(Dec(7, 298), Dec(36, 0), Dec(1024, 0), Dec(1024, 0),
                       Dec(239, 250), Dec(95, 250), 2, 14, 10)
          [] key = "SImJugglerEX" ->
                Preset(Dec(7, 298), Dec(35, 620), Dec(1092, 270), Dec(1092, 270),
                       Dec(251, 250), Dec(95, 250), 2, 14, 10)
          [] key = "HappyJugglerV3" ->
                Preset(Dec(7, 298), Dec(56, 550), Dec(655, 360), Dec(655, 360),
                       Dec(239, 700), Dec(95, 700), 4, 14, 10)
          [] key = "FunkyJuggler2" ->
                Preset(Dec(7, 298), Dec(35, 620), Dec(1092, 270), Dec(1092, 270),
                       Dec(239, 250), Dec(95, 250), 2, 14, 10)
          [] key = "GogoJuggler3" ->
                Preset(Dec(7, 298), Dec(32, 200), Dec(1092, 270), Dec(1092, 270),
                       Dec(239, 250), Dec(95, 250), 2, 14, 10)
          [] OTHER ->
                Preset(Dec(7, 298), Dec(37, 240), Dec(420, 0), Dec(655, 0),
                       Dec(239, 250), Dec(95, 250), 4, 14, 10)]

\* the preset names as written in the table, character by character
PresetName(key) ==
    CASE key = "MyJugglerV" ->
            <<"kMA", "kI", "kJI", "kya", "kGU", "kRA", "k-", "V">>
      [] key = "SImJugglerEX" ->
            <<"S", "kA", "kI", "kMU", "kJI", "kya", "kGU", "kRA", "k-", "E", "X">>
      [] key = "HappyJugglerV3" ->
            <<"kHA", "ktsu", "kPI", "k-", "kJI", "kya", "kGU", "kRA", "k-", "V", "ROMAN3">>
      [] key = "FunkyJuggler2" ->
            <<"kFU", "ka", "kN", "kKI", "k-", "kJI", "kya", "kGU", "kRA", "k-", "2">>
      [] key = "GogoJuggler3" ->
            <<"kGO", "k-", "kGO", "k-", "kJI", "kya", "kGU", "kRA", "k-", "3">>
      [] OTHER ->
            <<"kMI", "kSU", "kTA", "k-", "kJI", "kya", "kGU", "kRA", "k-">>

Capture(c, b, p) == [cherry |-> c, bell |-> b, piero |-> p]

STRATEGIES ==
    << [key |-> "random",    capture |-> Capture(Dec(0, 667), Dec(0, 100), Dec(0, 50))],
       [key |-> "cherry90",  capture |-> Capture(Dec(0, 900), Dec(0, 50),  Dec(0, 10))],
       [key |-> "cherry100", capture |-> Capture(Dec(1, 0),   Dec(0, 0),   Dec(0, 0))],
       [key |-> "full",      capture |-> Capture(Dec(1, 0),   Dec(1, 0),   Dec(1, 0))] >>

AssumeFields ==
    {"replay", "cherry", "bell", "piero", "bigAvg", "regAvg",
     "cherryPay", "bellPay", "pieroPay"}

-----------------------------------------------------------------------------
(* Strings and the string <-> number conversions of JavaScript *)

DigitSeq == <<"0", "1", "2", "3", "4", "5", "6", "7", "8", "9">>
Digits == {DigitSeq[i] : i \in 1..10}
DigitVal(c) == (CHOOSE i \in 1..10 : DigitSeq[i] = c) - 1

\* the decimal digits of a natural number
RECURSIVE Decimal(_)
Decimal(n) ==
    IF n < 10 THEN <<DigitSeq[n + 1]>>
    ELSE Decimal(n \div 10) \o <<DigitSeq[(n % 10) + 1]>>

\* \s of a regular expression, StrWhiteSpaceChar of the number grammar
WhiteSpace == {" ", "\t", "\n", "FWSP"}

IsDigitAt(s, i) == i >= 1 /\ i <= Len(s) /\ s[i] \in Digits
CharAt(s, i) == IF i >= 1 /\ i <= Len(s) THEN s[i] ELSE "EOF"

\* length of the run of digits of s that starts at i
RECURSIVE DigitRun(_, _)
DigitRun(s, i) == IF IsDigitAt(s, i) THEN 1 + DigitRun(s, i + 1) ELSE 0

\* first index >= i of s that holds no white space
RECURSIVE SkipWs(_, _)
SkipWs(s, i) ==
    IF i <= Len(s) /\ s[i] \in WhiteSpace THEN SkipWs(s, i + 1) ELSE i

\* the decimal value of the n digits of s that start at i
RECURSIVE DigitsValue(_, _, _)
DigitsValue(s, i, n) ==
    IF n = 0 THEN 0
    ELSE 10 * DigitsValue(s, i, n - 1) + DigitVal(s[i + n - 1])

\* the first four fraction digits that start at i (n of them present), scaled
FractionValue(s, i, n) ==
    LET d(j) == IF j <= n THEN DigitVal(s[i + j - 1]) ELSE 0
    IN  (d(1) * 1000 + d(2) * 100 + d(3) * 10 + d(4)) * (Scale \div 10000)

HasPrefixAt(s, i, w) ==
    /\ i + Len(w) - 1 <= Len(s)
    /\ \A j \in 1..Len(w) : s[i + j - 1] = w[j]

InfinityWord == <<"I", "n", "f", "i", "n", "i", "t", "y">>

\* StrDecimalLiteral at index i of s (no exponent part): whether one is there,
\* its value and the index after it
DecimalAt(s, i) ==
    LET neg == CharAt(s, i) = "-"
        j   == IF CharAt(s, i) \in {"+", "-"} THEN i + 1 ELSE i
        n1  == DigitRun(s, j)
        dot == CharAt(s, j + n1) = "."
        n2  == IF dot THEN DigitRun(s, j + n1 + 1) ELSE 0
        mag == DigitsValue(s, j, n1) * Scale + FractionValue(s, j + n1 + 1, n2)
    IN  IF HasPrefixAt(s, j, InfinityWord)
        THEN [ok |-> TRUE, val |-> IF neg THEN NegInf ELSE PosInf,
              next |-> j + Len(InfinityWord)]
        ELSE IF n1 = 0 /\ n2 = 0
        THEN [ok |-> FALSE, val |-> NaN, next |-> i]
        ELSE [ok |-> TRUE, val |-> Fin(IF neg THEN -mag ELSE mag),
              next |-> IF dot THEN j + n1 + 1 + n2 ELSE j + n1]

\* parseFloat(s): the longest numeric prefix after leading white space
parseFloat(s) == DecimalAt(s, SkipWs(s, 1)).val

\* Number(s): the whole string, trimmed, must be a numeric literal; "" is 0
ToNumber(s) ==
    LET i == SkipWs(s, 1)
        d == DecimalAt(s, i)
    IN  IF i > Len(s) THEN Fin(0)
        ELSE IF d.ok /\ SkipWs(s, d.next) > Len(s) THEN d.val
        ELSE NaN

\* String(n) of an integer n
RECURSIVE NatChars(_)
NatChars(n) ==
    IF n < 10 THEN <<DigitSeq[n + 1]>>
    ELSE Append(NatChars(n \div 10), DigitSeq[(n % 10) + 1])

IntChars(n) == IF n < 0 THEN <<"-">> \o NatChars(-n) ELSE NatChars(n)

\* s.replace(/,/g, "")
StripCommas(s) == SelectSeq(s, LAMBDA c : c # ",")

\* s.replace(/[^\d]/g, "")
OnlyDigits(s) == SelectSeq(s, LAMBDA c : c \in Digits)

\* s.slice(0, n)
Slice0(s, n) == SubSeq(s, 1, IF Len(s) < n THEN Len(s) ELSE n)

\* a value of an input field: a string, or a number (the integer n when
\* k = "fin", else the non-finite number k)
Str(s) == [t |-> "str", s |-> s, n |-> 0, k |-> "fin"]
Num(n) == [t |-> "num", s |-> <<>>, n |-> n, k |-> "fin"]
NonFinite(k) == [t |-> "num", s |-> <<>>, n |-> 0, k |-> k]
Blank == Str(<<>>)

\* a field value of type number, as a JavaScript number
AsNumber(val) == IF val.k = "fin" THEN Fin(val.n * Scale) ELSE [k |-> val.k, v |-> 0]

\* Number(value) of a field value
NumberOf(val) == IF val.t = "num" THEN AsNumber(val) ELSE ToNumber(val.s)

\* the parsed value whether finite or not
numberOr_NoFallback(val, fallback) ==
    IF val.t = "num" THEN AsNumber(val) ELSE parseFloat(StripCommas(val.s))

numberOr(val, fallback) ==
    LET n == IF val.t = "num" THEN AsNumber(val) ELSE parseFloat(StripCommas(val.s))
    IN  IF isFinite(n) THEN n ELSE fallback

-----------------------------------------------------------------------\* x.toFixed(digits) of a finite x >= 0, digits being 1 or 2: the value in
\* units of 1/Scale rounded to the nearest 10^-digits. The value carries four
\* fraction digits, so the text is that of the double wherever the double is
\* further than 1/Scale from a rounding boundary.
toFixed(x, digits) ==
    IF digits = 2
    THEN Decimal(((x.v + 50) \div 100) \div 100) \o <<".">> \o
         <<DigitSeq[((((x.v + 50) \div 100) % 100) \div 10) + 1],
           DigitSeq[(((x.v + 50) \div 100) % 10) + 1]>>
    ELSE Decimal(((x.v + 500) \div 1000) \div 10) \o <<".">> \o
         <<DigitSeq[(((x.v + 500) \div 1000) % 10) + 1]>>

\* the probability formatted whenever it is finite, zero included
formatProb_ZeroFormatted(x) ==
    IF ~isFinite(x) \/ JGt(Fin(0), x) THEN <<"-">>
    ELSE <<"1", "/">> \o toFixed(x, 2)

\* the probability shown with one fraction digit
formatProb_OneDecimal(x) ==
    IF ~isFinite(x) \/ JLe(x, Fin(0)) THEN <<"-">>
    ELSE <<"1", "/">> \o toFixed(x, 1)

formatProb(x) ==
    IF ~isFinite(x) \/ JLe(x, Fin(0)) THEN <<"-">>
    ELSE <<"1", "/">> \o toFixed(x, 2)

------
(* The calculation engine *)

\* coinIn, outBigReg and outOthers of calcResultByCapture
coinIn(g, a) ==
    JSub(JMul(Fin(3 * Scale), g), JMul(Fin(3 * Scale), JDiv(g, Fin(a.replay))))
outBigReg(B, R, a) == JAdd(JMul(B, Fin(a.bigAvg)), JMul(R, Fin(a.regAvg)))
outOthers(g, a, capture) ==
    JAdd(JAdd(
        JMul(JMul(JDiv(g, Fin(a.cherry)), Fin(a.cherryPay)), Fin(capture.cherry)),
        JMul(JMul(JDiv(g, Fin(a.bell)), Fin(a.bellPay)), Fin(capture.bell))),
        JMul(JMul(JDiv(g, Fin(a.piero)), Fin(a.pieroPay)), Fin(capture.piero)))

\* grapeProb, and the returned object (grapesCountRaw kept beside it)
grapeResult(g, grapesCountRaw, grapesCount) ==
    [grapesCountRaw |-> grapesCountRaw,
     grapesCount |-> grapesCount,
     grapeProb |-> IF JGt(grapesCount, Fin(0)) THEN JDiv(g, grapesCount) ELSE PosInf]

\* grapesCount = Math.max(0, grapesCountRaw)
grapesOf(g, grapesCountRaw) == grapeResult(g, grapesCountRaw, MathMax0(grapesCountRaw))

\* the engine with the net difference taken off the balance
calcNumbers_DiffSubtracted(g, B, R, D, a, capture) ==
    grapesOf(g, JDiv(JSub(JSub(coinIn(g, a), D),
                          JAdd(outBigReg(B, R, a), outOthers(g, a, capture))),
                     Fin(8 * Scale)))

\* calcResultByCapture past its four coercions: grapesCountRaw =
\* (D + coinIn - outKnown) / 8
calcNumbers(g, B, R, D, a, capture) ==
    grapesOf(g, JDiv(JSub(JAdd(D, coinIn(g, a)),
                          JAdd(outBigReg(B, R, a), outOthers(g, a, capture))),
                     Fin(8 * Scale)))

\* calcResultByCapture over explicit inputs: the four field values, the nine
\* constants (units of 1/Scale) and the capture rates
calcResult(fG, fBig, fReg, fDiff, a, capture) ==
    calcNumbers(numberOr(fG, Fin(0)), numberOr(fBig, Fin(0)), numberOr(fReg, Fin(0)),
                numberOr(fDiff, Fin(0)), a, capture)

calcResultByCapture(capture) == calcResult(G, big, reg, diff, assume, capture)

resultsByStrategy ==
    [i \in 1..Len(STRATEGIES) |->
        [key |-> STRATEGIES[i].key, res |-> calcResultByCapture(STRATEGIES[i].capture)]]

\* the factory of resultsByStrategy run on the inputs of a render
resultsOf(fG, fBig, fReg, fDiff, a) ==
    [i \in 1..Len(STRATEGIES) |->
        [key |-> STRATEGIES[i].key,
         res |-> calcResult(fG, fBig, fReg, fDiff, a, STRATEGIES[i].capture)]]

-----------------------------------------------------------------------------
(* OCR text -> fields: parseFromText *)

FullWidthDigits ==
    <<"FW0", "FW1", "FW2", "FW3", "FW4", "FW5", "FW6", "FW7", "FW8", "FW9">>

\* the full-width digits left as they are
HalfWidthDigit_Kept(c) == c

\* String.fromCharCode(d.charCodeAt(0) - 0xFF10 + 0x30) on [０-９]
HalfWidthDigit(c) ==
    IF \E i \in 1..10 : FullWidthDigits[i] = c
    THEN DigitSeq[CHOOSE i \in 1..10 : FullWidthDigits[i] = c]
    ELSE c

UpperCase ==
    <<"A", "B", "C", "D", "E", "F", "G", "H", "I", "J", "K", "L", "M",
      "N", "O", "P", "Q", "R", "S", "T", "U", "V", "W", "X", "Y", "Z", "ROMAN3">>
LowerCase ==
    <<"a", "b", "c", "d", "e", "f", "g", "h", "i", "j", "k", "l", "m",
      "n", "o", "p", "q", "r", "s", "t", "u", "v", "w", "x", "y", "z", "roman3">>

\* toLowerCase of one character
Lower(c) ==
    IF \E i \in 1..Len(UpperCase) : UpperCase[i] = c
    THEN LowerCase[CHOOSE i \in 1..Len(UpperCase) : UpperCase[i] = c]
    ELSE c

LowerSeq(s) == [i \in 1..Len(s) |-> Lower(s[i])]

Separators == {" ", ",", "\t"}

\* runs of spaces and tabs become one space, commas are left where they are
RECURSIVE CollapseSeparators_BlanksOnly(_, _)
CollapseSeparators_BlanksOnly(s, i) ==
    IF i > Len(s) THEN <<>>
    ELSE IF s[i] \in {" ", "\t"}
         THEN IF i > 1 /\ s[i - 1] \in {" ", "\t"}
              THEN CollapseSeparators_BlanksOnly(s, i + 1)
              ELSE <<" ">> \o CollapseSeparators_BlanksOnly(s, i + 1)
         ELSE <<s[i]>> \o CollapseSeparators_BlanksOnly(s, i + 1)

\* s.replace(/[ ,\t]+/g, " "): every run of separators becomes one space
RECURSIVE CollapseSeparators(_, _)
CollapseSeparators(s, i) ==
    IF i > Len(s) THEN <<>>
    ELSE IF s[i] \in Separators
         THEN IF i > 1 /\ s[i - 1] \in Separators
              THEN CollapseSeparators(s, i + 1)
              ELSE <<" ">> \o CollapseSeparators(s, i + 1)
         ELSE <<s[i]>> \o CollapseSeparators(s, i + 1)

Replaced(c, from, to) == IF c = from THEN to ELSE c
ReplaceChar(s, from, to) == [i \in 1..Len(s) |-> Replaced(s[i], from, to)]

\* the replace chain at the head of parseFromText, in its order
Normalize(s) ==
    LET s1 == [i \in 1..Len(s) |-> HalfWidthDigit(s[i])]
        s2 == CollapseSeparators(s1, 1)
        s3 == StripCommas(s2)
        s4 == ReplaceChar(s3, "FWG", "G")
        s5 == ReplaceChar(s4, "FW-", "-")
        s6 == ReplaceChar(s5, "FW+", "+")
    IN  LowerSeq(s6)

\* s.replace(/\s/g, "")
StripSpace(s) == SelectSeq(s, LAMBDA c : c \notin WhiteSpace)

\* hay.includes(needle)
Includes(hay, needle) == \E i \in 1..(Len(hay) + 1) : HasPrefixAt(hay, i, needle)

\* s.trim()
RECURSIVE TrimEnd(_)
TrimEnd(s) ==
    IF Len(s) > 0 /\ s[Len(s)] \in WhiteSpace THEN TrimEnd(SubSeq(s, 1, Len(s) - 1)) ELSE s

Trim(s) == LET t == TrimEnd(s) IN SubSeq(t, SkipWs(t, 1), Len(t))

\* an optional field of the extracted record
Absent == [has |-> FALSE, val |-> 0]
Some(n) == [has |-> TRUE, val |-> n]
NoMatch == [ok |-> FALSE, val |-> 0]

\* the loop over Object.keys(PRESETS): the first key, in table order, whose
\* normalized name the text contains; "none" for undefined
RECURSIVE MatchModelFrom(_, _)
MatchModelFrom(text, i) ==
    IF i > Len(PresetOrder) THEN "none"
    ELSE LET keyNorm == StripSpace(LowerSeq(PresetName(PresetOrder[i])))
         IN  IF Includes(StripSpace(text), keyNorm) THEN PresetOrder[i]
             ELSE MatchModelFrom(text, i + 1)

\* the last key, in table order, whose normalized name the text contains
MatchModel_LastInTable(text) ==
    LET found == {i \in 1..Len(PresetOrder) :
                    Includes(StripSpace(text),
                             StripSpace(LowerSeq(PresetName(PresetOrder[i]))))}
    IN  IF found = {} THEN "none"
        ELSE PresetOrder[CHOOSE i \in found : \A k \in found : k <= i]

MatchModel(text) == MatchModelFrom(text, 1)

Colons == {":", "FW:"}

\* ([+-]?\d{minD,maxD}) read by parseInt(.., 10): the digits start at j, run
\* of them follow, neg tells a leading "-"
RunValue(text, j, neg, run, minD, maxD) ==
    IF run < minD THEN NoMatch
    ELSE [ok |-> TRUE,
          val |-> IF neg THEN -DigitsValue(text, j, IF run > maxD THEN maxD ELSE run)
                  ELSE DigitsValue(text, j, IF run > maxD THEN maxD ELSE run)]

\* the sign skipped and the digits read as they stand
SignedDigitsAt_SignDropped(text, j, signed, minD, maxD) ==
    IF signed /\ CharAt(text, j) \in {"+", "-"}
    THEN RunValue(text, j + 1, FALSE, DigitRun(text, j + 1), minD, maxD)
    ELSE RunValue(text, j, FALSE, DigitRun(text, j), minD, maxD)

SignedDigitsAt(text, j, signed, minD, maxD) ==
    IF signed /\ CharAt(text, j) \in {"+", "-"}
    THEN RunValue(text, j + 1, text[j] = "-", DigitRun(text, j + 1), minD, maxD)
    ELSE RunValue(text, j, FALSE, DigitRun(text, j), minD, maxD)

\* [:：]?\s*  matched at index j: the index after it
AfterColon(text, j) == IF CharAt(text, j) \in Colons THEN SkipWs(text, j + 1) ELSE j

\* the tail  \s*[:：]?\s*([+-]?\d{minD,maxD})  of a labeled pattern, matched at
\* index e; the value of the captured group
LabelTailAt(text, e, signed, minD, maxD) ==
    SignedDigitsAt(text, AfterColon(text, SkipWs(text, e)), signed, minD, maxD)

\* the first of two matches that is one
OrElse(m, rest) == IF m.ok THEN m ELSE rest

\* a labeled pattern (w1|w2|..)tail at index p: the alternatives in order
RECURSIVE LabeledAt(_, _, _, _, _, _, _)
LabeledAt(text, p, words, k, signed, minD, maxD) ==
    IF k > Len(words) THEN NoMatch
    ELSE OrElse(IF HasPrefixAt(text, p, words[k])
                THEN LabelTailAt(text, p + Len(words[k]), signed, minD, maxD)
                ELSE NoMatch,
                LabeledAt(text, p, words, k + 1, signed, minD, maxD))

\* /(総?回転数|g数|回転数)\s*[:：]?\s*(\d{2,6})\s*g?/
GWords ==
    << <<"SOU", "KAI", "TEN", "SUU">>, <<"KAI", "TEN", "SUU">>,
       <<"g", "SUU">>, <<"KAI", "TEN", "SUU">> >>
GLabeledAt(text, p) == LabeledAt(text, p, GWords, 1, FALSE, 2, 6)

\* the fallback with its unit letter optional: /(\d{3,6})\s*g?/
GBareAt_UnitOptional(text, p) ==
    IF DigitRun(text, p) >= 3
    THEN [ok |-> TRUE,
          val |-> DigitsValue(text, p, IF DigitRun(text, p) > 6 THEN 6 ELSE DigitRun(text, p))]
    ELSE NoMatch

\* /(\d{3,6})\s*g(?!\/)/
GBareAt(text, p) ==
    LET run == DigitRun(text, p)
        j   == SkipWs(text, p + run)
    IN  IF /\ run >= 3 /\ run <= 6
           /\ CharAt(text, j) = "g"
           /\ CharAt(text, j + 1) # "/"
        THEN [ok |-> TRUE, val |-> DigitsValue(text, p, run)]
        ELSE NoMatch

\* /(bb|big|ビッグ)\s*[:：]?\s*(\d{1,3})/
BBWords == << <<"b", "b">>, <<"b", "i", "g">>, <<"kBI", "ktsu", "kGU">> >>
BBAt(text, p) == LabeledAt(text, p, BBWords, 1, FALSE, 1, 3)

\* /(rb|reg|レギュラー)\s*[:：]?\s*(\d{1,3})/
RBWords == << <<"r", "b">>, <<"r", "e", "g">>, <<"kRE", "kGI", "kyu", "kRA", "k-">> >>
RBAt(text, p) == LabeledAt(text, p, RBWords, 1, FALSE, 1, 3)

\* /(差枚(数)?|差玉|差枚数)\s*[:：]?\s*([+-]?\d{1,6})/
DiffWords ==
    << <<"SA", "MAI", "SUU">>, <<"SA", "MAI">>, <<"SA", "TAMA">>, <<"SA", "MAI", "SUU">> >>
DiffLabeledAt(text, p) == LabeledAt(text, p, DiffWords, 1, TRUE, 1, 6)

\* /([+-]\d{1,6})\s*(枚)?/
DiffBareAt(text, p) ==
    LET run == DigitRun(text, p + 1)
        n   == IF run > 6 THEN 6 ELSE run
        mag == DigitsValue(text, p + 1, n)
    IN  IF CharAt(text, p) \in {"+", "-"} /\ run >= 1
        THEN [ok |-> TRUE, val |-> IF text[p] = "-" THEN -mag ELSE mag]
        ELSE NoMatch

\* the six patterns by name: the match of one at index p
PatternAt(pat, text, p) ==
    CASE pat = "gLabeled"    -> GLabeledAt(text, p)
      [] pat = "gBare"       -> GBareAt(text, p)
      [] pat = "bb"          -> BBAt(text, p)
      [] pat = "rb"          -> RBAt(text, p)
      [] pat = "diffLabeled" -> DiffLabeledAt(text, p)
      [] pat = "diffBare"    -> DiffBareAt(text, p)

\* text.match(r): the leftmost match of the pattern
FirstMatch(text, pat) ==
    LET at == [p \in 1..Len(text) |-> PatternAt(pat, text, p)]
        ps == {p \in 1..Len(text) : at[p].ok}
    IN  IF ps = {} THEN NoMatch
        ELSE at[CHOOSE p \in ps : \A q \in ps : p <= q]

\* the loop over a pattern list from its k-th pattern on: the first pattern
\* that matches anywhere
RECURSIVE FirstOfFrom(_, _, _)
FirstOfFrom(text, pats, k) ==
    IF k > Len(pats) THEN NoMatch
    ELSE LET m == FirstMatch(text, pats[k])
         IN  IF m.ok THEN m ELSE FirstOfFrom(text, pats, k + 1)

FirstOf(text, pats) == FirstOfFrom(text, pats, 1)

\* the spin patterns with the bare one tried first
gPatterns_BareFirst == <<"gBare", "gLabeled">>

gPatterns == <<"gLabeled", "gBare">>
bbPatterns == <<"bb">>
rbPatterns == <<"rb">>
diffPatterns == <<"diffLabeled", "diffBare">>

Field(m) == IF m.ok THEN Some(m.val) ELSE Absent

NullResult ==
    [kind |-> "null", modelKey |-> "none",
     G |-> Absent, big |-> Absent, reg |-> Absent, diff |-> Absent]

\* no parseFromText call yet
NoResult == [NullResult EXCEPT !.kind = "none"]

\* the null test counting a recognized model name as a field
parseFromText_ModelCounts(rawText) ==
    IF rawText = <<>> THEN NullResult
    ELSE LET text == Normalize(rawText)
             mk == MatchModel(text)
             g  == Field(FirstOf(text, gPatterns))
             b  == Field(FirstOf(text, bbPatterns))
             r  == Field(FirstOf(text, rbPatterns))
             d  == Field(FirstOf(text, diffPatterns))
         IN  IF mk = "none" /\ ~g.has /\ ~b.has /\ ~r.has /\ ~d.has THEN NullResult
             ELSE [kind |-> "record", modelKey |-> mk,
                   G |-> g, big |-> b, reg |-> r, diff |-> d]

parseFromText(rawText) ==
    IF rawText = <<>> THEN NullResult
    ELSE LET text == Normalize(rawText)
             mk == MatchModel(text)
             g  == Field(FirstOf(text, gPatterns))
             b  == Field(FirstOf(text, bbPatterns))
             r  == Field(FirstOf(text, rbPatterns))
             d  == Field(FirstOf(text, diffPatterns))
         IN  IF ~g.has /\ ~b.has /\ ~r.has /\ ~d.has THEN NullResult
             ELSE [kind |-> "record", modelKey |-> mk,
                   G |-> g, big |-> b, reg |-> r, diff |-> d]

-----------------------------------------------------------------------------
(* Bounds and input sets of the session specification *)

MaxEdited == 1      \* inputs a user edit may leave away from their defaults
MaxG == 200         \* largest spin count the G buttons are pressed up to
MaxBR == 2          \* largest count the BIG / REG buttons are pressed up to
MaxDiff == 100      \* largest |difference| the difference buttons are pressed up to
MaxAssume == 2      \* the -/+ buttons of a constant are pressed from its preset
                    \* value or from a value up to this one
MaxInflight == 1    \* OCR requests awaited at once

\* presets chosen in the select
UiPresets == {"MyJugglerV", "MisterJuggler"}

\* e.target.value of the typed edits
TypedNumber == { <<>>, <<"1", "0", "0">>, <<"1", "a">> }
TypedDiff == { <<>>, <<"-">>, <<"+", "5", "0">>, <<"-", "5", "-">> }

\* data.text of the OCR results
OcrSamples ==
    { <<"kMA", "kI", "kJI", "kya", "kGU", "kRA", "k-", "V", " ",
        "SOU", "KAI", "TEN", "SUU", ":", "3", "2", "0", "0", "G", "\n">>,
      <<"1", "5", "0", "G", "\n", "B", "I", "G", " ", "1", "2", "\n",
        "SA", "MAI", " ", "FW-", "5", "0">>,
      <<" ", "a", "b", "c", "\n">>,
      <<"kMI", "kSU", "kTA", "k-", "kJI", "kya", "kGU", "kRA", "k-">> }

-----------------------------------------------------------------------------
(* The session: App *)

\* JSON null
Null == [t |-> "null", s |-> <<>>, n |-> 0, k |-> "fin"]

\* every number written as the text of its digits
Json_NumbersAsText(val) ==
    IF val.t # "num" THEN val
    ELSE IF val.k = "fin" THEN Str(IntChars(val.n)) ELSE Null

\* JSON.parse(JSON.stringify(val)) of a field value: a string and a finite
\* number come back as they were, NaN and the infinities as null
Json(val) == IF val.t = "num" /\ val.k # "fin" THEN Null ELSE val

\* saveState({ modelKey, G, big, reg, diff }) of the effect that follows a
\* render, as loadSaved() reads it back
SavedOf(mk, g, b, r, d) ==
    [modelKey |-> mk, G |-> Json(g), big |-> Json(b), reg |-> Json(r), diff |-> Json(d)]

SaveEffect == saved' = SavedOf(modelKey', G', big', reg', diff')

\* a dependency list that leaves out diff
Deps_DiffMissing ==
    <<G, big, reg, assume.replay, assume.cherry, assume.bell, assume.piero,
      assume.bigAvg, assume.regAvg, assume.cherryPay, assume.bellPay, assume.pieroPay>>

\* the dependency list of the useMemo that holds resultsByStrategy
Deps ==
    <<G, big, reg, diff, assume.replay, assume.cherry, assume.bell, assume.piero,
      assume.bigAvg, assume.regAvg, assume.cherryPay, assume.bellPay, assume.pieroPay>>

Inputs == [G |-> G, big |-> big, reg |-> reg, diff |-> diff, assume |-> assume]

\* useMemo on the render that follows a state change: the factory runs again
\* on the inputs of that render when a dependency changed, else the memoized
\* value is kept
Memo == memoOf' = IF Deps' = Deps THEN memoOf ELSE Inputs'

\* the memoized resultsByStrategy, which the page displays
shown == resultsOf(memoOf.G, memoOf.big, memoOf.reg, memoOf.diff, memoOf.assume)

HistoryUnchanged == UNCHANGED <<history, savedHistory>>

\* the state after the first render with an empty localStorage
Init ==
    /\ modelKey = "MyJugglerV"
    /\ G = Blank /\ big = Blank /\ reg = Blank /\ diff = Blank
    /\ assume = PRESETS["MyJugglerV"]
    /\ ocrBusy = FALSE
    /\ ocrLog = <<>>
    /\ inflight = 0
    /\ raw = <<>>
    /\ parsed = NoResult
    /\ saved = SavedOf("MyJugglerV", Blank, Blank, Blank, Blank)
    /\ memoOf = Inputs
    /\ history = <<>>
    /\ savedHistory = <<>>

\* loadSaved().G ?? "" of the state initialisers
Loaded(val) == IF val = Null THEN Blank ELSE val

\* the page loaded again: every useState initialiser runs on localStorage, the
\* recognitions awaited by the page left behind die with it
Restart ==
    /\ modelKey' = saved.modelKey
    /\ G' = Loaded(saved.G) /\ big' = Loaded(saved.big)
    /\ reg' = Loaded(saved.reg) /\ diff' = Loaded(saved.diff)
    /\ assume' = PRESETS[modelKey']
    /\ ocrBusy' = FALSE
    /\ ocrLog' = <<>>
    /\ inflight' = 0
    /\ raw' = <<>>
    /\ parsed' = NoResult
    /\ history' = savedHistory
    /\ savedHistory' = savedHistory
    /\ SaveEffect
    /\ memoOf' = Inputs'

\* how many inputs differ from their defaults (a measure the bounds use)
Edited(mk, g, b, r, d, a) ==
    Cardinality({f \in AssumeFields : a[f] # PRESETS[mk][f]})
    + Cardinality({i \in 1..4 : <<g, b, r, d>>[i] # Blank})

OcrUnchanged == UNCHANGED <<ocrBusy, ocrLog, inflight, raw, parsed>>

loadPreset(key) ==
    /\ modelKey' = key
    /\ assume' = PRESETS[key]
    /\ G' = Blank /\ big' = Blank /\ reg' = Blank /\ diff' = Blank
    /\ SaveEffect
    /\ Memo
    /\ HistoryUnchanged
    /\ OcrUnchanged

handleReset ==
    /\ G' = Blank /\ big' = Blank /\ reg' = Blank /\ diff' = Blank
    /\ UNCHANGED <<modelKey, assume>>
    /\ SaveEffect
    /\ Memo
    /\ HistoryUnchanged
    /\ OcrUnchanged

\* Math.max / Math.min on integers
Max(a, b) == IF a > b THEN a ELSE b

\* `current` of the three widgets: Number(value) when finite, else 0
Current(val) == IF isFinite(NumberOf(val)) THEN NumberOf(val) ELSE Fin(0)

\* NumberField.apply for the G field (step 100, min 0, extra buttons of 1000)
NumberFieldNext(current, delta, min) ==
    LET n1 == current + delta * Scale
        n2 == Max(min * Scale, n1)       \* !allowNegative && (min ?? 0) >= 0
        n3 == Max(min * Scale, n2)       \* min != null
    IN  MathRound(n3)

GApply(delta) ==
    LET next == NumberFieldNext(Current(G).v, delta, 0)
    IN  /\ G' = Str(IntChars(next))
        /\ UNCHANGED <<modelKey, big, reg, diff, assume>>
        /\ SaveEffect
        /\ Memo
        /\ HistoryUnchanged
        /\ OcrUnchanged

\* NumberField.onChange
NumberFieldOnChange(value) == Slice0(OnlyDigits(value), 6)

GOnChange(value) ==
    /\ G' = Str(NumberFieldOnChange(value))
    /\ UNCHANGED <<modelKey, big, reg, diff, assume>>
    /\ SaveEffect
    /\ Memo
    /\ HistoryUnchanged
    /\ OcrUnchanged

\* the count stepped with no floor at 0
BRFieldNext_Unclamped(curr, d) == (curr + d * Scale) \div Scale

\* BRField.apply
BRFieldNext(curr, d) == Max(0, curr + d * Scale) \div Scale

\* BRField.onChange
BRFieldOnChange(value) == Slice0(OnlyDigits(value), 4)

BigApply(d) ==
    LET next == BRFieldNext(Current(big).v, d)
    IN  /\ big' = Str(IntChars(next))
        /\ UNCHANGED <<modelKey, G, reg, diff, assume>>
        /\ SaveEffect
        /\ Memo
        /\ HistoryUnchanged
        /\ OcrUnchanged

BigOnChange(value) ==
    /\ big' = Str(BRFieldOnChange(value))
    /\ UNCHANGED <<modelKey, G, reg, diff, assume>>
    /\ SaveEffect
    /\ Memo
    /\ HistoryUnchanged
    /\ OcrUnchanged

RegApply(d) ==
    LET next == BRFieldNext(Current(reg).v, d)
    IN  /\ reg' = Str(IntChars(next))
        /\ UNCHANGED <<modelKey, G, big, diff, assume>>
        /\ SaveEffect
        /\ Memo
        /\ HistoryUnchanged
        /\ OcrUnchanged

RegOnChange(value) ==
    /\ reg' = Str(BRFieldOnChange(value))
    /\ UNCHANGED <<modelKey, G, big, diff, assume>>
    /\ SaveEffect
    /\ Memo
    /\ HistoryUnchanged
    /\ OcrUnchanged

\* DiffField.apply
DiffFieldNext(current, delta) == MathRound(current + delta * Scale)

\* DiffField.onChange
DiffFieldOnChange(value) ==
    LET rawv   == SelectSeq(value, LAMBDA c : c \in Digits \cup {"+", "-"})
        sign   == IF CharAt(rawv, 1) = "-" THEN <<"-">>
                  ELSE IF CharAt(rawv, 1) = "+" THEN <<"+">> ELSE <<>>
        digits == Slice0(OnlyDigits(rawv), 6)
    IN  sign \o digits

DiffApply(delta) ==
    LET next == DiffFieldNext(Current(diff).v, delta)
    IN  /\ diff' = Str(IntChars(next))
        /\ UNCHANGED <<modelKey, G, big, reg, assume>>
        /\ SaveEffect
        /\ Memo
        /\ HistoryUnchanged
        /\ OcrUnchanged

DiffOnChange(value) ==
    /\ diff' = Str(DiffFieldOnChange(value))
    /\ UNCHANGED <<modelKey, G, big, reg, assume>>
    /\ SaveEffect
    /\ Memo
    /\ HistoryUnchanged
    /\ OcrUnchanged

\* NumberField.apply of a constant (step 1, no min, allowNegative false); the
\* state keeps Number(value) of the string the widget stores
AssumeNext(current, delta) ==
    LET n1 == current + delta * Scale
        n2 == Max(0, n1)                 \* !allowNegative && (min ?? 0) >= 0
    IN  MathRound(n2) * Scale

AssumeApply(f, delta) ==
    /\ assume' = [assume EXCEPT ![f] = AssumeNext(assume[f], delta)]
    /\ UNCHANGED <<modelKey, G, big, reg, diff, saved>>
    /\ Memo
    /\ HistoryUnchanged
    /\ OcrUnchanged

AssumeOnChange(f, value) ==
    /\ assume' = [assume EXCEPT ![f] = ToNumber(NumberFieldOnChange(value)).v]
    /\ UNCHANGED <<modelKey, G, big, reg, diff, saved>>
    /\ Memo
    /\ HistoryUnchanged
    /\ OcrUnchanged

\* handleImageFiles up to its await; files is files.length
handleImageFiles(files) ==
    IF files = 0 THEN UNCHANGED vars
    ELSE /\ ocrBusy' = TRUE
         /\ ocrLog' = <<"start">>
         /\ inflight' = inflight + 1
         /\ UNCHANGED <<modelKey, G, big, reg, diff, assume, raw, parsed, saved>>
         /\ Memo
         /\ HistoryUnchanged

\* the merge of a parsed record into the session
MergeField(has, val, afterPreset) == IF has THEN Num(val) ELSE afterPreset

\* parseFromText on the recognized texts of the session specification, tabulated
SampleExtract == [t \in OcrSamples |-> parseFromText(Trim(t))]

Extract(dataText) ==
    IF dataText \in OcrSamples THEN SampleExtract[dataText]
    ELSE parseFromText(Trim(dataText))

\* the merge with the preset loaded after the fields were set, which clears
\* them again
Merge_FieldsFirst(text, p) ==
    LET load == p.kind = "record" /\ p.modelKey \in PresetKeys
        set(has, val, v) == IF load THEN Blank ELSE MergeField(has, val, v)
    IN  /\ raw' = text
        /\ parsed' = p
        /\ IF p.kind = "record"
           THEN /\ modelKey' = IF load THEN p.modelKey ELSE modelKey
                /\ assume' = IF load THEN PRESETS[p.modelKey] ELSE assume
                /\ G' = set(p.G.has, p.G.val, G)
                /\ big' = set(p.big.has, p.big.val, big)
                /\ reg' = set(p.reg.has, p.reg.val, reg)
                /\ diff' = set(p.diff.has, p.diff.val, diff)
                /\ ocrLog' = ocrLog \o <<"text", "ok">>
           ELSE /\ UNCHANGED <<modelKey, assume, G, big, reg, diff>>
                /\ ocrLog' = ocrLog \o <<"text", "warn">>
        /\ ocrBusy' = FALSE
        /\ SaveEffect
        /\ Memo
        /\ HistoryUnchanged

\* the body of `if (parsed) { .. } else { .. }` and the finally block, for the
\* value p of parsed
Merge(text, p) ==
    LET load == p.kind = "record" /\ p.modelKey \in PresetKeys
        cur(v) == IF load THEN Blank ELSE v
    IN  /\ raw' = text
        /\ parsed' = p
        /\ IF p.kind = "record"
           THEN /\ modelKey' = IF load THEN p.modelKey ELSE modelKey
                /\ assume' = IF load THEN PRESETS[p.modelKey] ELSE assume
                /\ G' = MergeField(p.G.has, p.G.val, cur(G))
                /\ big' = MergeField(p.big.has, p.big.val, cur(big))
                /\ reg' = MergeField(p.reg.has, p.reg.val, cur(reg))
                /\ diff' = MergeField(p.diff.has, p.diff.val, cur(diff))
                /\ ocrLog' = ocrLog \o <<"text", "ok">>
           ELSE /\ UNCHANGED <<modelKey, assume, G, big, reg, diff>>
                /\ ocrLog' = ocrLog \o <<"text", "warn">>
        /\ ocrBusy' = FALSE
        /\ SaveEffect
        /\ Memo
        /\ HistoryUnchanged

\* handleImageFiles after its await, recognition having returned dataText
OcrDone(dataText) ==
    /\ inflight > 0
    /\ inflight' = inflight - 1
    /\ \E p \in {Extract(dataText)} : Merge(Trim(dataText), p)

\* the catch block clearing the inputs as handleReset does
OcrFail_Clears ==
    /\ inflight > 0
    /\ inflight' = inflight - 1
    /\ ocrLog' = Append(ocrLog, "error")
    /\ ocrBusy' = FALSE
    /\ G' = Blank /\ big' = Blank /\ reg' = Blank /\ diff' = Blank
    /\ UNCHANGED <<modelKey, assume, raw, parsed>>
    /\ SaveEffect
    /\ Memo
    /\ HistoryUnchanged

\* handleImageFiles after its await, recognition having thrown
OcrFail ==
    /\ inflight > 0
    /\ inflight' = inflight - 1
    /\ ocrLog' = Append(ocrLog, "error")
    /\ ocrBusy' = FALSE
    /\ UNCHANGED <<modelKey, G, big, reg, diff, assume, raw, parsed, saved>>
    /\ Memo
    /\ HistoryUnchanged

HISTORY_MAX == 10

\* lookup[key] ?? Infinity of handleAddHistory, over the results it is given
Lookup(results, key) ==
    IF \E i \in 1..Len(results) : results[i].key = key
    THEN results[CHOOSE i \in 1..Len(results) : results[i].key = key].res.grapeProb
    ELSE PosInf

\* the row handleAddHistory builds
RowOf(results) ==
    [modelKey   |-> modelKey,
     probRandom |-> formatProb(Lookup(results, "random")),
     probC90    |-> formatProb(Lookup(results, "cherry90")),
     probC100   |-> formatProb(Lookup(results, "cherry100")),
     probFull   |-> formatProb(Lookup(results, "full"))]
HistoryRow == RowOf(shown)

\* saveHistory(rows)
saveHistory(rows) == savedHistory' = Slice0(rows, HISTORY_MAX)

\* the row put behind the rows already held
handleAddHistory_Appended ==
    /\ \E row \in {HistoryRow} : history' = Slice0(history \o <<row>>, HISTORY_MAX)
    /\ saveHistory(history')
    /\ UNCHANGED <<modelKey, G, big, reg, diff, assume, saved, memoOf>>
    /\ OcrUnchanged

handleAddHistory ==
    /\ \E row \in {HistoryRow} : history' = Slice0(<<row>> \o history, HISTORY_MAX)
    /\ saveHistory(history')
    /\ UNCHANGED <<modelKey, G, big, reg, diff, assume, saved, memoOf>>
    /\ OcrUnchanged

\* the bounds, on the state a button press or a typed edit leads to
WithinEdited == Edited(modelKey', G', big', reg', diff', assume') <= MaxEdited
UpTo(val, max) == Abs(Current(val).v) <= max * Scale
Pressable(f) == assume[f] = PRESETS[modelKey][f] \/ assume[f] <= MaxAssume * Scale

Next ==
    \/ \E key \in UiPresets : loadPreset(key)
    \/ handleReset
    \/ \E delta \in {-1000, -100, 100, 1000} :
            GApply(delta) /\ UpTo(G', MaxG) /\ WithinEdited
    \/ \E value \in TypedNumber : GOnChange(value) /\ WithinEdited
    \/ \E d \in {-10, -1, 1, 10} :
            BigApply(d) /\ UpTo(big', MaxBR) /\ WithinEdited
    \/ \E value \in TypedNumber : BigOnChange(value) /\ WithinEdited
    \/ \E d \in {-10, -1, 1, 10} :
            RegApply(d) /\ UpTo(reg', MaxBR) /\ WithinEdited
    \/ \E value \in TypedNumber : RegOnChange(value) /\ WithinEdited
    \/ \E delta \in {-1000, -100, -50, 50, 100, 1000} :
            DiffApply(delta) /\ UpTo(diff', MaxDiff) /\ WithinEdited
    \/ \E value \in TypedDiff : DiffOnChange(value) /\ WithinEdited
    \/ \E f \in AssumeFields, delta \in {-1, 1} :
            Pressable(f) /\ AssumeApply(f, delta) /\ WithinEdited
    \/ \E f \in AssumeFields, value \in TypedNumber :
            AssumeOnChange(f, value) /\ WithinEdited
    \/ \E files \in {0, 1} : inflight < MaxInflight /\ handleImageFiles(files)
    \/ \E dataText \in OcrSamples : OcrDone(dataText)
    \/ OcrFail

Spec == Init /\ [][Next]_vars

\* the recognitions and the preset buttons, an image chosen or dropped while
\* earlier ones are still being read (neither the file inputs nor the drop
\* area look at ocrBusy)
MaxOverlap == 2

NextOverlap ==
    \/ \E key \in UiPresets : loadPreset(key)
    \/ \E files \in {0, 1} : inflight < MaxOverlap /\ handleImageFiles(files)
    \/ \E dataText \in OcrSamples : OcrDone(dataText)
    \/ OcrFail

SpecOverlap == Init /\ [][NextOverlap]_vars

\* the session with the page loaded again at any moment
NextPersist == Next \/ Restart

SpecPersist == Init /\ [][NextPersist]_vars

-----------------------------------------------------------------------------
(* The extraction on its own: one OCR request in flight in a fresh session,  *)
(* completed with every text made of at most MaxFrags fragments              *)

MaxFrags == 3

Fragments ==
    { <<"3", ",", "2", "0", "0">>, <<"1", "5", "0">>, <<"1", "/", "1", "5", "0">>,
      <<"1", "2">>, <<"G">>, <<"/">>, <<" ">>, <<"-">>, <<"x">>,
      <<"SOU", "KAI", "TEN", "SUU", ":">>, <<"B", "I", "G">>,
      <<"kMA", "kI", "kJI", "kya", "kGU", "kRA", "k-", "V">> }

RECURSIVE TextsOf(_)
TextsOf(n) ==
    IF n = 0 THEN { <<>> }
    ELSE LET shorter == TextsOf(n - 1)
         IN  shorter \cup {t \o f : t \in shorter, f \in Fragments}

Texts == TextsOf(MaxFrags)

InitParse ==
    /\ modelKey = "MyJugglerV"
    /\ G = Blank /\ big = Blank /\ reg = Blank /\ diff = Blank
    /\ assume = PRESETS["MyJugglerV"]
    /\ ocrBusy = TRUE
    /\ ocrLog = <<"start">>
    /\ inflight = 1
    /\ raw = <<>>
    /\ parsed = NoResult
    /\ saved = SavedOf("MyJugglerV", Blank, Blank, Blank, Blank)
    /\ memoOf = Inputs
    /\ history = <<>>
    /\ savedHistory = <<>>

NextParse == \E dataText \in Texts : OcrDone(dataText)

SpecParse == InitParse /\ [][NextParse]_vars

-----------------------------------------------------------------------------------------------------------------------------------------------------
(* Recognition results with labels, signs and model names: texts of up to   *)
(* MaxLabelFrags fragments                                                   *)

MaxLabelFrags == 3

LabelFragments ==
    { <<"1", "5", "0", "G">>, <<"3", "2", "0", "0">>, <<"1", "2">>,
      <<"KAI", "TEN", "SUU">>, <<"SA", "MAI">>, <<"B", "I", "G">>,
      <<"-", "5", "0">>, <<"FW+", "7">>, <<"FW-">>, <<":">>, <<" ">>,
      PresetName("MisterJuggler"),
      <<"kMA", "kI", "kJI", "kya", "kGU", "kRA", "k-", " ", "V">> }

RECURSIVE TextsFrom(_, _)
TextsFrom(frags, n) ==
    IF n = 0 THEN { <<>> }
    ELSE LET shorter == TextsFrom(frags, n - 1)
         IN  shorter \cup {t \o f : t \in shorter, f \in frags}

LabelTexts == TextsFrom(LabelFragments, MaxLabelFrags)

NextLabel == \E dataText \in LabelTexts : OcrDone(dataText)

SpecLabel == InitParse /\ [][NextLabel]_vars

-----------------------------------------------------------------------------
(* Recognition results over the characters the normalization touches:       *)
(* texts of up to MaxChars characters                                        *)

MaxChars == 3

NormAlphabet ==
    {"1", "FW1", " ", "\t", ",", "G", "g", "FWG", "-", "FW-", "+", "FW+", "a", "A"}

NormTexts == TextsFrom({<<c>> : c \in NormAlphabet}, MaxChars)

NextNormalize == \E dataText \in NormTexts : OcrDone(dataText)

SpecNormalize == InitParse /\ [][NextNormalize]_vars

-----------------------------------------------------------------------------
(* Recognition results of two fixed forms: a labeled count of spins with    *)
(* its unit, and a tier-1 keyword with its count                             *)

SpinsRun == 12
TierRun == 12

\* the digits of a count in half width, in full width, or alternating
Widths == {"half", "full", "mixed"}
Styled(ds, w) ==
    [i \in 1..Len(ds) |->
        IF w = "full" \/ (w = "mixed" /\ i % 2 = 1)
        THEN FullWidthDigits[DigitVal(ds[i]) + 1]
        ELSE ds[i]]

SpinsValues ==
    (100..(100 + SpinsRun)) \cup
    {999, 1000, 3200, 9999, 10000, 65536, 99999, 100000, 999999}
SpinsUnits == {"G", "g", "FWG"}
SpinsText(n, w, u) ==
    <<"SOU", "KAI", "TEN", "SUU", ":", " ">> \o Styled(Decimal(n), w) \o <<u>>
SpinsTexts == {SpinsText(n, w, u) : n \in SpinsValues, w \in Widths, u \in SpinsUnits}

TierKeywords ==
    { <<"b", "b">>, <<"B", "B">>, <<"B", "b">>,
      <<"b", "i", "g">>, <<"B", "I", "G">>, <<"B", "i", "g">> }
TierSeparators == { <<>>, <<" ">>, <<":">>, <<":", " ">> }
TierDigits ==
    {Decimal(n) : n \in (0..TierRun) \cup {99, 100, 150, 999}} \cup
    { <<"0", "7">>, <<"0", "0", "7">> }
TierText(k, sep, ds) == k \o sep \o ds
TierTexts == {TierText(k, sep, ds) : k \in TierKeywords, sep \in TierSeparators, ds \in TierDigits}

SpinsRead == \E dataText \in SpinsTexts : OcrDone(dataText)
TierRead == \E dataText \in TierTexts : OcrDone(dataText)

NextForms == SpinsRead \/ TierRead

SpecForms == InitParse /\ [][NextForms]_vars

-----------------------------------------------------------------------------
(* The history: a session of 3000 spins whose tier-1 count is pressed up    *)
(* and down between additions to the history                                 *)

HistoryMaxBig == 1

InitHistory ==
    /\ modelKey = "MyJugglerV"
    /\ G = Num(3000) /\ big = Blank /\ reg = Blank /\ diff = Blank
    /\ assume = PRESETS["MyJugglerV"]
    /\ ocrBusy = FALSE
    /\ ocrLog = <<>>
    /\ inflight = 0
    /\ raw = <<>>
    /\ parsed = NoResult
    /\ saved = SavedOf(modelKey, G, big, reg, diff)
    /\ memoOf = Inputs
    /\ history = <<>>
    /\ savedHistory = <<>>

NextHistory ==
    \/ \E d \in {-1, 1} : BigApply(d) /\ UpTo(big', HistoryMaxBig)
    \/ handleAddHistory

SpecHistory == InitHistory /\ [][NextHistory]_vars

-----
(* The engine on its own: sessions restored from every saved state of a      *)
(* small set (JSON text holds any string, and 1e999 parses to Infinity),     *)
(* each preset's constants, and the difference buttons pressed               *)

EngineMaxDiff == 200

Malformed ==
    { Blank, Str(<<"-">>), Str(<<"+">>), Str(<<"a", "b", "c">>), Str(InfinityWord),
      NonFinite("inf"), NonFinite("ninf") }

EngineG    == { Blank, Str(<<"1", "0", "0">>), Num(3000), Str(<<"-">>) }
EngineBig  == { Str(<<"1">>), Num(10), Str(<<"a", "b", "c">>) }
EngineReg  == { Str(<<"1">>), Num(10), Str(InfinityWord), NonFinite("inf") }
EngineDiff == { Blank, NonFinite("ninf") }

InitEngine ==
    /\ modelKey \in PresetKeys
    /\ G \in EngineG /\ big \in EngineBig /\ reg \in EngineReg /\ diff \in EngineDiff
    /\ assume = PRESETS[modelKey]
    /\ ocrBusy = FALSE
    /\ ocrLog = <<>>
    /\ inflight = 0
    /\ raw = <<>>
    /\ parsed = NoResult
    /\ saved = SavedOf(modelKey, G, big, reg, diff)
    /\ memoOf = Inputs
    /\ history = <<>>
    /\ savedHistory = <<>>

NextEngine ==
    \E delta \in {-1000, -100, -50, 50, 100, 1000} :
        DiffApply(delta) /\ UpTo(diff', EngineMaxDiff)

SpecEngine == InitEngine /\ [][NextEngine]_vars

-----------------------------------------------------------------------------
(* Properties                                                                *)

StrategyIndex == 1..Len(STRATEGIES)
Result(i) == resultsByStrategy[i].res
Zero == Fin(0)
EndsWith(seq, tail) ==
    Len(seq) >= Len(tail) /\ SubSeq(seq, Len(seq) - Len(tail) + 1, Len(seq)) = tail

\* C1: whenever the spin count G is 0, every strategy's grapesCount is 0 and
\* its probability is the infinite sentinel
C1_ZeroSpinsNoGrapes ==
    numberOr(G, Zero) = Zero =>
        \A i \in StrategyIndex :
            Result(i).grapesCount = Zero /\ Result(i).grapeProb = PosInf

-----------------------------------------------------------------------------
\* a step that completes a recognition with a record and merges it
MergeStep ==
    /\ inflight' = inflight - 1
    /\ parsed'.kind = "record"
    /\ ocrLog' = ocrLog \o <<"text", "ok">>

\* C2: merging an extracted record leaves every session field the record
\* lacks at the value it had before, also when the record names a model
C2_AbsentFieldsKept ==
    [][MergeStep =>
        /\ ~parsed'.G.has => G' = G
        /\ ~parsed'.big.has => big' = big
        /\ ~parsed'.reg.has => reg' = reg
        /\ ~parsed'.diff.has => diff' = diff]_vars

-----------------------------------------------------------------------------
\* C3: for every strategy grapesCount is never negative: a negative raw
\* count is reported as 0 and any other raw count is reported as it is
C3_GrapesCountClamped ==
    \A i \in StrategyIndex :
        LET r == Result(i)
        IN  /\ ~JGt(Zero, r.grapesCount)
            /\ JGt(Zero, r.grapesCountRaw) => r.grapesCount = Zero
            /\ JLe(Zero, r.grapesCountRaw) => r.grapesCount = r.grapesCountRaw

\* a negative raw count, clamped, beside the bonus count that causes it
C3_Witness ==
    /\ numberOr(big, Zero) # Zero
    /\ \E i \in StrategyIndex :
            JGt(Zero, Result(i).grapesCountRaw) /\ Result(i).grapesCount = Zero

-----------------------------------------------------------------------------
Denominators == {"replay", "cherry", "bell", "piero"}

\* C4: the four hit-rate denominators of every preset, and of the working
\* constants after any preset loads, edits and button presses, are above 0
C4_DenominatorsPositive ==
    /\ \A key \in PresetKeys : \A f \in Denominators : PRESETS[key][f] > 0
    /\ \A f \in Denominators : assume[f] > 0

-----------------------------------------------------------------------------
\* C5: for every preset and strategy, with G, big and reg fixed, a larger
\* net difference D never gives a smaller grapesCount
DiffProbe == {Num(50 * n) : n \in -(EngineMaxDiff \div 50)..(EngineMaxDiff \div 50)}
GrapesAt(d, i) ==
    calcResult(G, big, reg, d, assume, STRATEGIES[i].capture).grapesCount

C5_MonotoneInDiff ==
    \A i \in StrategyIndex :
        \A count \in {[d \in DiffProbe \cup {diff} |-> GrapesAt(d, i)]} :
            \A d1, d2 \in DOMAIN count :
                JLe(numberOr(d1, Zero), numberOr(d2, Zero)) => JLe(count[d1], count[d2])

\* the count leaves the clamp as D grows from the session's value
C5_Witness ==
    /\ numberOr(diff, Zero) # Zero
    /\ \E i \in StrategyIndex : \E d2 \in DiffProbe :
        /\ JGt(numberOr(d2, Zero), numberOr(diff, Zero))
        /\ GrapesAt(diff, i) = Zero
        /\ JGt(GrapesAt(d2, i), Zero)

-----------------------------------------------------------------------------
\* what the text holds, pattern by pattern
Matched(text, pat) == \E p \in 1..Len(text) : PatternAt(pat, text, p).ok
FieldsMatched(text) ==
    [G    |-> Matched(text, "gLabeled") \/ Matched(text, "gBare"),
     big  |-> Matched(text, "bb"),
     reg  |-> Matched(text, "rb"),
     diff |-> Matched(text, "diffLabeled") \/ Matched(text, "diffBare")]
FieldNames == {"G", "big", "reg", "diff"}
AnyDigit == Digits \cup {FullWidthDigits[n] : n \in 1..Len(FullWidthDigits)}
HasDigit(text) == \E p \in 1..Len(text) : text[p] \in AnyDigit

\* C6: parseFromText gives null exactly when none of the four numeric
\* fields matched, whether or not a model name was recognized; a record
\* holds exactly the matched fields; a text without digits gives null
C6_NullIffNoField ==
    parsed.kind # "none" =>
        LET m == FieldsMatched(Normalize(raw))
        IN  /\ parsed.kind = "null" <=> \A f \in FieldNames : ~m[f]
            /\ parsed.kind = "record" => \A f \in FieldNames : parsed[f].has <=> m[f]
            /\ ~HasDigit(raw) => parsed.kind = "null"

\* a model name and digits in the text, and still null
C6_Witness ==
    /\ parsed.kind = "null"
    /\ MatchModel(Normalize(raw)) \in PresetKeys
    /\ HasDigit(raw)

-----------------------------------------------------------------------------
SessionFields == <<modelKey, assume, G, big, reg, diff>>
FailStep == inflight' = inflight - 1 /\ ocrLog' = Append(ocrLog, "error")
NullStep ==
    /\ inflight' = inflight - 1
    /\ parsed'.kind = "null"
    /\ ocrLog' = ocrLog \o <<"text", "warn">>

\* C7: a recognition that fails, or whose text gives null, leaves modelKey,
\* the constants, G, big, reg and diff as they were and appends its own
\* message to the log; only a recognition that gives a record changes them
C7_FailureKeepsSession ==
    [][/\ FailStep \/ NullStep => UNCHANGED SessionFields
       /\ inflight' = inflight - 1 =>
            \/ FailStep /\ ~NullStep
            \/ NullStep /\ ~FailStep
            \/ MergeStep /\ ~FailStep /\ ~NullStep]_vars

\* a null outcome for a text naming another model, in an edited session
C7_Witness ==
    /\ EndsWith(ocrLog, <<"text", "warn">>)
    /\ parsed.kind = "null"
    /\ MatchModel(Normalize(raw)) \in PresetKeys \ {modelKey}
    /\ <<G, big, reg, diff>> # <<Blank, Blank, Blank, Blank>>

-----------------------------------------------------------------------------
\* C8: a session field that is blank, non-numeric or not finite is used as
\* 0: the results are those of the session with 0 in its place, and the
\* counts stay finite
Coerced(val) == IF val \in Malformed THEN Num(0) ELSE val

C8_MalformedAsZero ==
    /\ \A val \in Malformed : numberOr(val, Zero) = Zero
    /\ \A i \in StrategyIndex :
        /\ Result(i) = calcResult(Coerced(G), Coerced(big), Coerced(reg),
                                  Coerced(diff), assume, STRATEGIES[i].capture)
        /\ Result(i).grapesCount.k = "fin"

\* every field malformed in its own way, or all but a typed difference
C8_Witness ==
    /\ G = Str(<<"-">>)
    /\ big = Str(<<"a", "b", "c">>)
    /\ reg \in {Str(InfinityWord), NonFinite("inf")}
    /\ diff \notin Malformed
    /\ \E i \in StrategyIndex : JGt(Result(i).grapesCount, Zero)

-----------------------------------------------------------------------------
\* C9: thousands commas are removed during normalization, so that "3,200G"
\* is read as 3200 spins
C9_ThousandsCommaStripped ==
    /\ Includes(raw, <<"3", ",", "2", "0", "0">>) =>
            Includes(Normalize(raw), <<"3", "2", "0", "0">>)
    /\ raw = <<"3", ",", "2", "0", "0", "G">> => parsed.G = Some(3200)

-----------------------------------------------------------------------------
\* the digit run holding index p is the denominator of a ratio
RECURSIVE RunStart(_, _)
RunStart(text, p) == IF IsDigitAt(text, p - 1) THEN RunStart(text, p - 1) ELSE p
RatioDenominatorAt(text, p) ==
    CharAt(text, RunStart(text, p) - 1) = "/" /\ IsDigitAt(text, RunStart(text, p) - 2)

\* C10: the bare "<digits>g" fallback takes no count out of a ratio, so
\* that "1/150G" with no labeled count gives no spin count
C10_RatioNotSpins ==
    parsed.kind # "none" =>
        LET text == Normalize(raw)
        IN  (/\ ~Matched(text, "gLabeled")
             /\ \A p \in 1..Len(text) :
                    GBareAt(text, p).ok => RatioDenominatorAt(text, p))
            => ~parsed.G.has

-----------------------------------------------------------------------------
\* the indexes where a pattern matches, and its value at the least of them
MatchesOf(text, pat) == {p \in 1..Len(text) : PatternAt(pat, text, p).ok}
Least(ps) == CHOOSE p \in ps : \A q \in ps : p <= q
LeftmostValue(text, pat) == PatternAt(pat, text, Least(MatchesOf(text, pat))).val

\* the value the two patterns of a field must give: the labeled one when it
\* matches anywhere, the bare one only when the labeled matches nowhere
Prioritized(text, labeled, bare) ==
    IF MatchesOf(text, labeled) # {} THEN Some(LeftmostValue(text, labeled))
    ELSE IF MatchesOf(text, bare) # {} THEN Some(LeftmostValue(text, bare))
    ELSE Absent

\* C11: for the spin count and for the net difference the extracted value is
\* the labeled one whenever the labeled pattern matches anywhere in the
\* normalized text, wherever the bare pattern matches; the bare value is
\* used only when the labeled pattern matches nowhere
C11_LabeledFirst ==
    parsed.kind = "record" =>
        /\ parsed.G = Prioritized(Normalize(raw), "gLabeled", "gBare")
        /\ parsed.diff = Prioritized(Normalize(raw), "diffLabeled", "diffBare")

\* a bare spin count stands before the labeled one and differs from it
C11_Witness ==
    /\ parsed.kind = "record"
    /\ \E pb \in MatchesOf(Normalize(raw), "gBare") :
        /\ MatchesOf(Normalize(raw), "gLabeled") # {}
        /\ pb < Least(MatchesOf(Normalize(raw), "gLabeled"))
        /\ PatternAt("gBare", Normalize(raw), pb).val
                # LeftmostValue(Normalize(raw), "gLabeled")
        /\ parsed.G = Some(LeftmostValue(Normalize(raw), "gLabeled"))

-----------------------------------------------------------------------------
\* the difference pattern that decides, and the first digit from an index on
DiffPattern(text) ==
    IF MatchesOf(text, "diffLabeled") # {} THEN "diffLabeled" ELSE "diffBare"
RECURSIVE FirstDigitFrom(_, _)
FirstDigitFrom(text, i) ==
    IF i > Len(text) \/ IsDigitAt(text, i) THEN i ELSE FirstDigitFrom(text, i + 1)

\* C12: an extracted net difference has the sign written directly before the
\* matched digits, a full-width minus or plus counting as "-" or "+": "-"
\* gives the negated magnitude, "+" or (labeled pattern only) no sign the
\* positive one, and the magnitude is the matched run of 1 to 6 digits
C12_DiffSign ==
    parsed.diff.has =>
        LET text == Normalize(raw)
            j    == FirstDigitFrom(text, Least(MatchesOf(text, DiffPattern(text))))
            run  == DigitRun(text, j)
            mag  == DigitsValue(text, j, IF run > 6 THEN 6 ELSE run)
        IN  /\ run >= 1
            /\ parsed.diff.val = IF CharAt(text, j - 1) = "-" THEN -mag ELSE mag
            /\ DiffPattern(text) = "diffBare" => CharAt(text, j - 1) \in {"+", "-"}
            /\ \A i \in 1..Len(text) : text[i] \notin {"FW-", "FW+"}
            /\ Cardinality({i \in 1..Len(text) : text[i] = "-"})
                    = Cardinality({i \in 1..Len(raw) : raw[i] \in {"-", "FW-"}})

\* a labeled difference written with a full-width minus
C12_Witness ==
    /\ parsed.diff.has
    /\ parsed.diff.val < 0
    /\ DiffPattern(Normalize(raw)) = "diffLabeled"
    /\ \E i \in 1..Len(raw) : raw[i] = "FW-"

-----------------------------------------------------------------------------
\* the table indexes of the preset names the text contains, names and text
\* without white space, names in lower case
NamesContained(text) ==
    {i \in 1..Len(PresetOrder) :
        Includes(StripSpace(text), StripSpace(LowerSeq(PresetName(PresetOrder[i]))))}

\* C13: the model key of a record is the preset, earliest in table order,
\* whose lower-cased name without white space is contained in the normalized
\* text without white space, wherever it stands in the text; it is absent
\* when no name is contained
C13_ModelByTableOrder ==
    parsed.kind = "record" =>
        LET found == NamesContained(Normalize(raw))
        IN  parsed.modelKey = IF found = {} THEN "none" ELSE PresetOrder[Least(found)]

\* two names in the text, the later one in the table standing first, and
\* the earlier one written with a space inside
C13_Witness ==
    /\ parsed.kind = "record"
    /\ Cardinality(NamesContained(Normalize(raw))) = 2
    /\ HasPrefixAt(raw, 1, PresetName("MisterJuggler"))
    /\ ~Includes(raw, PresetName("MyJugglerV"))
    /\ parsed.modelKey = "MyJugglerV"

-----------------------------------------------------------------------------
\* C14: normalization is idempotent on texts of half- and full-width digits,
\* spaces, tabs, commas, the letter G in both widths, minus and plus in both
\* widths and letters of both cases: normalizing a normalized text changes
\* nothing; checked on the recognized text and on it between separators
C14_NormalizeIdempotent ==
    \A t \in {raw, <<",", " ">> \o raw \o <<"\t", ",">>} :
        Normalize(Normalize(t)) = Normalize(t)

\* a text of three characters each of which the normalization rewrites
C14_Witness ==
    /\ Len(raw) = 3
    /\ \A i \in 1..3 : raw[i] \in {"FW1", "\t", ",", "FWG", "FW-", "FW+", "A", "G"}
    /\ \E i \in 1..3 : raw[i] = "FWG"
    /\ \E i \in 1..2 : raw[i] \in Separators /\ raw[i + 1] \in Separators
    /\ Len(Normalize(raw)) = 2

-----------------------------------------------------------------------------
\* C15: a text "<total spins label>: <n>G", n of 3 to 6 digits written in
\* half- or full-width digits and the unit written G, g or full-width G,
\* yields a record whose spins are n
C15_SpinsRoundTrip ==
    \A n \in SpinsValues, w \in Widths, u \in SpinsUnits :
        raw = SpinsText(n, w, u) => parsed.kind = "record" /\ parsed.G = Some(n)

\* the six-digit count, in full-width digits with the full-width unit
C15_Witness ==
    /\ raw = SpinsText(999999, "full", "FWG")
    /\ parsed.G = Some(999999)

-----------------------------------------------------------------------------
\* C16: a text that is only a tier-1 keyword (bb or big in any case) and a
\* number n of 1 to 3 digits yields a record whose tier-1 count is n and whose
\* spins, tier-2 count and difference are absent
C16_TierOneOnly ==
    \A k \in TierKeywords, sep \in TierSeparators, ds \in TierDigits :
        raw = TierText(k, sep, ds) =>
            /\ parsed.kind = "record"
            /\ parsed.big = Some(DigitsValue(ds, 1, Len(ds)))
            /\ parsed.G = Absent /\ parsed.reg = Absent /\ parsed.diff = Absent

\* "BIG 150": three digits, which a count of spins would need as well
C16_Witness ==
    /\ raw = TierText(<<"B", "I", "G">>, <<" ">>, <<"1", "5", "0">>)
    /\ parsed.big = Some(150)
    /\ parsed.G = Absent

-----------------------------------------------------------------------------
\* the reference session: the first preset, 3000 spins, ten of each bonus and
\* no difference
Reference ==
    /\ modelKey = PresetOrder[1]
    /\ G = Num(3000) /\ big = Num(10) /\ reg = Num(10)
    /\ numberOr(diff, Zero) = Zero

\* (D + 3G - 3G/replay - (10*239.25 + 10*95.25) - (G/36)*2) / 8 with G = 3000
\* and D = 0
ReferenceCount ==
    JDiv(JSub(JSub(JSub(Fin(3 * 3000 * Scale),
                        JDiv(Fin(3 * 3000 * Scale), Fin(Dec(7, 298)))),
                   Fin(10 * Dec(239, 250) + 10 * Dec(95, 250))),
              JMul(JDiv(Fin(3000 * Scale), Fin(36 * Scale)), Fin(2 * Scale))),
         Fin(8 * Scale))

\* C17: in the reference session the strategy capturing every cherry and no
\* bell or piero has the grapesCount of the reference formula, 531.89 to two
\* places, and its probability is displayed as 1/5.64
C17_ReferenceScenario ==
    Reference =>
        \A i \in StrategyIndex :
            STRATEGIES[i].capture = Capture(Dec(1, 0), Dec(0, 0), Dec(0, 0)) =>
                /\ Result(i).grapesCount = ReferenceCount
                /\ toFixed(Result(i).grapesCount, 2) = <<"5", "3", "1", ".", "8", "9">>
                /\ formatProb(Result(i).grapeProb) = <<"1", "/", "5", ".", "6", "4">>

\* the reference session after differences were pressed and taken back
C17_Witness ==
    /\ Reference
    /\ diff = Str(<<"0">>)
    /\ formatProb(Result(3).grapeProb) = <<"1", "/", "5", ".", "6", "4">>

-----------------------------------------------------------------------------
\* C18: the displayed results are a function of the current inputs: one entry
\* per strategy of the table, in table order, each the engine applied to the
\* current G, big, reg, diff, the current nine constants and that strategy's
\* capture rates
C18_ResultsOfCurrentInputs ==
    /\ Len(shown) = Len(STRATEGIES)
    /\ \A i \in StrategyIndex :
        /\ shown[i].key = STRATEGIES[i].key
        /\ shown[i].res = calcResult(G, big, reg, diff, assume, STRATEGIES[i].capture)

\* a session whose difference was pressed away from a restored blank, the
\* results differing from those of the blank difference
C18_Witness ==
    /\ diff \notin {Blank, Str(<<"0">>)}
    /\ \E i \in StrategyIndex :
        shown[i].res # calcResult(G, big, reg, Blank, assume, STRATEGIES[i].capture)

-----------------------------------------------------------------------------
\* the text displayed as the probability of the i-th strategy
Displayed(i) == formatProb(shown[i].res.grapeProb)

\* C19: whenever G coerces to 0 (blank inputs after a reset or a preset switch
\* included), or a strategy's grapesCount is 0 or not finite, the probability
\* displayed for that strategy is "-", never a formatted 1/x
C19_SentinelDisplayed ==
    \A i \in StrategyIndex :
        \/ numberOr(G, Zero) = Zero
        \/ shown[i].res.grapesCount = Zero
        \/ ~isFinite(shown[i].res.grapesCount)
        => Displayed(i) = <<"-">>

\* no spins and a positive difference: grapes are inferred, and "-" is shown
C19_Witness ==
    /\ numberOr(G, Zero) = Zero
    /\ \E i \in StrategyIndex :
        /\ JGt(shown[i].res.grapesCount, Zero)
        /\ shown[i].res.grapeProb = Zero
        /\ Displayed(i) = <<"-">>

-----------------------------------------------------------------------------
Min(a, b) == IF a < b THEN a ELSE b

\* a step that puts the row of the current results at the head of both
\* histories, the rows held moving down by one and none beyond the tenth kept
RowAdded ==
    /\ Len(history') = Min(Len(history) + 1, 10)
    /\ history'[1] = HistoryRow
    /\ \A i \in 2..Len(history') : history'[i] = history[i - 1]
    /\ savedHistory' = history'

\* C20: the history in memory and the persisted history hold at most 10 rows,
\* most recent first: every addition puts its row at index 0, keeps the order
\* of the earlier rows and drops the oldest when an eleventh is added
C20_HistoryBounded ==
    /\ [](Len(history) <= 10 /\ Len(savedHistory) <= 10)
    /\ [][\/ UNCHANGED <<history, savedHistory>> /\ big' # big
          \/ RowAdded]_vars

\* a full history, saved, whose rows are not all alike
C20_Witness ==
    /\ Len(history) = 10
    /\ savedHistory = history
    /\ history[1] # history[2]
    /\ history[1] # history[10]

-----------------------------------------------------------------------------
\* a page load that follows a session in which a recognition was started
RestartStep == ocrLog # <<>> /\ ocrLog' = <<>>

\* C21: the persisted record always holds the current modelKey, G, big, reg
\* and diff, and a restart initialises the session with exactly the persisted
\* values
C21_PersistenceRoundTrip ==
    /\ [](saved = [modelKey |-> modelKey, G |-> G, big |-> big, reg |-> reg,
                   diff |-> diff])
    /\ [][RestartStep =>
            /\ modelKey' = saved.modelKey
            /\ G' = saved.G /\ big' = saved.big
            /\ reg' = saved.reg /\ diff' = saved.diff
            /\ saved' = saved]_vars

\* a session loaded again with the number a recognition had merged and a
\* preset other than the first
C21_Witness ==
    /\ ocrLog = <<>>
    /\ \E f \in {G, big, reg, diff} : f.t = "num"
    /\ modelKey # PresetOrder[1]
    /\ saved.modelKey = modelKey /\ saved.G = G

-----------------------------------------------------------------------------
\* a field as the engine sees it is not below zero
NonNegative(val) == ~JGt(Zero, numberOr(val, Zero))

\* C22: after any typed edits, button presses, resets, preset switches and
\* recognition merges from the defaults, the spins and the tier-1 and tier-2
\* counts the engine sees are never negative; the difference can be
C22_CountsNonNegative == NonNegative(G) /\ NonNegative(big) /\ NonNegative(reg)

\* the minus buttons pressed at zero on a count and on the difference: the
\* count stays at 0, the difference goes below it
C22_Witness ==
    /\ \E f \in {G, big, reg} : f = Str(<<"0">>)
    /\ ~NonNegative(diff)

-----------------------------------------------------------------------------
\* C23: a merged record that names a model of the table has the preset loaded
\* before its fields are set: after the merge modelKey and the nine constants
\* are the preset's, manual edits gone, and every field the record holds has
\* its extracted value, not the blank the preset switch leaves
C23_PresetBeforeFields ==
    [][MergeStep /\ parsed'.modelKey \in PresetKeys =>
        /\ modelKey' = parsed'.modelKey
        /\ assume' = PRESETS[parsed'.modelKey]
        /\ parsed'.G.has => G' = Num(parsed'.G.val)
        /\ parsed'.big.has => big' = Num(parsed'.big.val)
        /\ parsed'.reg.has => reg' = Num(parsed'.reg.val)
        /\ parsed'.diff.has => diff' = Num(parsed'.diff.val)]_vars

\* the record naming the first preset and 3200 spins, merged
C23_Witness ==
    /\ parsed.kind = "record"
    /\ parsed.modelKey = PresetOrder[1]
    /\ parsed.G = Some(3200)
    /\ EndsWith(ocrLog, <<"text", "ok">>)
    /\ modelKey = PresetOrder[1] /\ assume = PRESETS[modelKey]
    /\ G = Num(3200) /\ big = Blank

-----------------------------------------------------------------------------
\* C24: the busy indicator tracks the recognitions in flight: ocrBusy is true
\* whenever at least one started request has not completed, and false once
\* all of them have
C24_BusyTracksInflight == ocrBusy <=> inflight > 0

====
